---- MODULE Spec2Model ----
(***************************************************************************)
(* Model of ureq's response ingestion (src/src/response.rs): the status    *)
(* line and header parser, the body framing selector of into_reader, the   *)
(* bounded reader LimitedRead and the materialization into a string.       *)
(*                                                                         *)
(* Text is a TLA+ string; all offsets are Rust's 0-based byte offsets.     *)
(* Option<T> is None / Some(v); Result<T, E> is Ok(v) / Err(e).            *)
(***************************************************************************)
EXTENDS Integers, Sequences, FiniteSets, TLC

None == [some |-> FALSE]
Some(v) == [some |-> TRUE, v |-> v]
Ok(v) == [ok |-> TRUE, v |-> v]
Err(e) == [ok |-> FALSE, err |-> e]

Min(a, b) == IF a < b THEN a ELSE b

(***************************************************************************)
(* str and byte-slice primitives of the standard library, as used by the   *)
(* source.                                                                 *)
(***************************************************************************)
CharAt(s, i) == SubSeq(s, i + 1, i + 1)           \* s[i]
Slice(s, from, to) == SubSeq(s, from + 1, to)     \* &s[from..to]
SliceFrom(s, from) == SubSeq(s, from + 1, Len(s)) \* &s[from..]

UpperChars == "ABCDEFGHIJKLMNOPQRSTUVWXYZ"
LowerChars == "abcdefghijklmnopqrstuvwxyz"

\* the lower-case letter of every upper-case ASCII letter
AsciiLower ==
    [u \in {CharAt(UpperChars, i) : i \in 0..(Len(UpperChars) - 1)} |->
        CharAt(LowerChars, CHOOSE i \in 0..(Len(UpperChars) - 1) : CharAt(UpperChars, i) = u)]

to_ascii_lowercase(c) == IF c \in DOMAIN AsciiLower THEN AsciiLower[c] ELSE c

eq_ignore_ascii_case(a, b) ==
    /\ Len(a) = Len(b)
    /\ \A i \in 0..(Len(a) - 1) :
          to_ascii_lowercase(CharAt(a, i)) = to_ascii_lowercase(CharAt(b, i))

is_whitespace(c) == c \in {" ", "\t", "\n", "\r", "\f"}

RECURSIVE trim_start(_)
trim_start(s) ==
    IF Len(s) > 0 /\ is_whitespace(CharAt(s, 0)) THEN trim_start(SliceFrom(s, 1)) ELSE s

RECURSIVE trim_end(_)
trim_end(s) ==
    IF Len(s) > 0 /\ is_whitespace(CharAt(s, Len(s) - 1))
    THEN trim_end(Slice(s, 0, Len(s) - 1))
    ELSE s

trim(s) == trim_end(trim_start(s))

\* str::find(char): the offset of the first occurrence.
RECURSIVE find_from(_, _, _)
find_from(s, c, i) ==
    IF i >= Len(s) THEN None
    ELSE IF CharAt(s, i) = c THEN Some(i)
    ELSE find_from(s, c, i + 1)

find(s, c) == find_from(s, c, 0)

\* str::splitn(n, ' '): at most n pieces, the last one holding the rest.
RECURSIVE splitn(_, _)
splitn(n, s) ==
    IF n <= 1 \/ ~find(s, " ").some
    THEN <<s>>
    ELSE <<Slice(s, 0, find(s, " ").v)>> \o splitn(n - 1, SliceFrom(s, find(s, " ").v + 1))

(***************************************************************************)
(* str::parse for the unsigned integer types: an optional leading '+',     *)
(* then one or more decimal digits, with a checked accumulation that fails *)
(* on overflow of the type.  The width is kept as the decimal text of the  *)
(* type's MAX, so that the 64-bit bound needs no 64-bit arithmetic.        *)
(***************************************************************************)
Digits == "0123456789"
U16_MAX == "65535"
USIZE_MAX == "18446744073709551615"

is_digit(c) == \E d \in 0..9 : CharAt(Digits, d) = c
digit_value(c) == CHOOSE d \in 0..9 : CharAt(Digits, d) = c

RECURSIVE strip_zeros(_)
strip_zeros(s) ==
    IF Len(s) > 1 /\ CharAt(s, 0) = "0" THEN strip_zeros(SliceFrom(s, 1)) ELSE s

\* a <= b for two digit strings without leading zeros
RECURSIVE numeral_le(_, _)
numeral_le(a, b) ==
    IF Len(a) # Len(b) THEN Len(a) < Len(b)
    ELSE IF Len(a) = 0 THEN TRUE
    ELSE IF CharAt(a, 0) # CharAt(b, 0)
         THEN digit_value(CharAt(a, 0)) < digit_value(CharAt(b, 0))
         ELSE numeral_le(SliceFrom(a, 1), SliceFrom(b, 1))

RECURSIVE numeral_value(_, _)
numeral_value(s, acc) ==
    IF Len(s) = 0 THEN acc
    ELSE numeral_value(SliceFrom(s, 1), acc * 10 + digit_value(CharAt(s, 0)))

parse_unsigned(s, max) ==
    LET digits == IF Len(s) > 0 /\ CharAt(s, 0) = "+" THEN SliceFrom(s, 1) ELSE s
    IN  IF Len(digits) = 0 THEN None
        ELSE IF \E i \in 0..(Len(digits) - 1) : ~is_digit(CharAt(digits, i)) THEN None
        ELSE IF ~numeral_le(strip_zeros(digits), max) THEN None
        ELSE Some(numeral_value(strip_zeros(digits), 0))

parse_u16(s) == parse_unsigned(s, U16_MAX)

parse_usize(s) == parse_unsigned(s, USIZE_MAX)

\* format!("{}", n) of an unsigned integer
RECURSIVE fmt_unsigned(_)
fmt_unsigned(n) ==
    IF n < 10 THEN CharAt(Digits, n)
    ELSE fmt_unsigned(n \div 10) \o CharAt(Digits, n % 10)

(***************************************************************************)
(* UTF-8.  A byte that cannot occur in valid UTF-8 (0xFF) is written "#"   *)
(* and the replacement character U+FFFD is written "?"; every other byte   *)
(* of the model is ASCII.                                                  *)
(***************************************************************************)
INVALID_BYTE == "#"
REPLACEMENT_CHARACTER == "?"

from_utf8(buf) ==
    IF \E i \in 0..(Len(buf) - 1) : CharAt(buf, i) = INVALID_BYTE
    THEN Err("InvalidInput")
    ELSE Ok(buf)

RECURSIVE from_utf8_lossy(_)
from_utf8_lossy(buf) ==
    IF Len(buf) = 0 THEN ""
    ELSE (IF CharAt(buf, 0) = INVALID_BYTE THEN REPLACEMENT_CHARACTER ELSE CharAt(buf, 0))
         \o from_utf8_lossy(SliceFrom(buf, 1))

(***************************************************************************)
(* Header (crate::header): a line split at its first colon; the name is    *)
(* compared case-insensitively and the value is trimmed.                   *)
(***************************************************************************)
Header_from_str(line) ==
    IF find(line, ":").some
    THEN Ok([line |-> line, index |-> find(line, ":").v])
    ELSE Err("BadHeader")

Header_name(h) == Slice(h.line, 0, h.index)
Header_value(h) == trim(SliceFrom(h.line, h.index + 1))
Header_is_name(h, other) == eq_ignore_ascii_case(Header_name(h), other)

(***************************************************************************)
(* A byte source: Stream::Cursor over a buffer, or a socket whose peer     *)
(* sends data and then closes.  pos bytes have been consumed.              *)
(***************************************************************************)
Cursor(data) == [kind |-> "Cursor", data |-> data, pos |-> 0]
Tcp(data) == [kind |-> "Tcp", data |-> data, pos |-> 0]

remaining(stream) == Len(stream.data) - stream.pos

(***************************************************************************)
(* read_next_line: bytes are read one at a time until an LF that follows a *)
(* CR; the CR is popped and the line decoded as UTF-8.                     *)
(***************************************************************************)
\* a line reader for which the end of the stream ends the line
RECURSIVE read_next_line_loop_eof_ends_line(_, _, _)
read_next_line_loop_eof_ends_line(reader, buf, prev_byte_was_cr) ==
    IF remaining(reader) = 0
    THEN [res |-> from_utf8(buf), reader |-> reader]
    ELSE LET byte == CharAt(reader.data, reader.pos)
             next == [reader EXCEPT !.pos = @ + 1]
         IN  IF byte = "\n" /\ prev_byte_was_cr
             THEN [res |-> from_utf8(Slice(buf, 0, Len(buf) - 1)), reader |-> next]
             ELSE read_next_line_loop_eof_ends_line(next, buf \o byte, byte = "\r")

\* a line reader that takes any LF for the end of the line
RECURSIVE read_next_line_loop_any_lf(_, _, _)
read_next_line_loop_any_lf(reader, buf, prev_byte_was_cr) ==
    IF remaining(reader) = 0
    THEN [res |-> Err("ConnectionAborted"), reader |-> reader]
    ELSE LET byte == CharAt(reader.data, reader.pos)
             next == [reader EXCEPT !.pos = @ + 1]
         IN  IF byte = "\n"
             THEN [res |-> from_utf8(IF prev_byte_was_cr THEN Slice(buf, 0, Len(buf) - 1) ELSE buf),
                   reader |-> next]
             ELSE read_next_line_loop_any_lf(next, buf \o byte, byte = "\r")

read_next_line_any_lf(reader) == read_next_line_loop_any_lf(reader, "", FALSE)

RECURSIVE read_next_line_loop(_, _, _)
read_next_line_loop(reader, buf, prev_byte_was_cr) ==
    IF remaining(reader) = 0
    THEN [res |-> Err("ConnectionAborted"), reader |-> reader]
    ELSE LET byte == CharAt(reader.data, reader.pos)
             next == [reader EXCEPT !.pos = @ + 1]
         IN  IF byte = "\n" /\ prev_byte_was_cr
             THEN [res |-> from_utf8(Slice(buf, 0, Len(buf) - 1)), reader |-> next]
             ELSE read_next_line_loop(next, buf \o byte, byte = "\r")

read_next_line(reader) == read_next_line_loop(reader, "", FALSE)

(***************************************************************************)
(* parse_status_line                                                       *)
(***************************************************************************)
\* a parser that insists on a third field, the reason phrase
parse_status_line_three_fields(line) ==
    LET split == splitn(3, line)
    IN  IF Len(split) < 3 \/ Len(split[1]) < 5 THEN Err("BadStatus")
        ELSE IF Len(split[2]) < 2 \/ ~parse_u16(split[2]).some THEN Err("BadStatus")
        ELSE Ok([index |-> [http_version |-> Len(split[1]),
                            response_code |-> Len(split[1]) + Len(split[2])],
                 status |-> parse_u16(split[2]).v])

parse_status_line(line) ==
    LET split == splitn(3, line)
        http_version == split[1]
        index1 == Len(http_version)
        status == split[2]
        index2 == index1 + Len(status)
    IN  IF Len(http_version) < 5 THEN Err("BadStatus")
        ELSE IF Len(split) < 2 THEN Err("BadStatus")
        ELSE IF Len(status) < 2 THEN Err("BadStatus")
        ELSE IF ~parse_u16(status).some THEN Err("BadStatus")
        ELSE Ok([index |-> [http_version |-> index1, response_code |-> index2],
                 status |-> parse_u16(status).v])

(***************************************************************************)
(* Response::do_from_read: the status line, then header lines up to the    *)
(* first empty line.  Returns the result and the reader as it is left.     *)
(***************************************************************************)
\* a header loop that takes one byte more than the empty line from its reader
RECURSIVE read_headers_one_byte_more(_, _)
read_headers_one_byte_more(reader, headers) ==
    LET got == read_next_line(reader)
    IN  IF ~got.res.ok THEN [res |-> Err(got.res.err), reader |-> got.reader]
        ELSE IF got.res.v = ""
             THEN [res |-> Ok(headers),
                   reader |-> [got.reader EXCEPT !.pos = Min(@ + 1, Len(got.reader.data))]]
        ELSE IF Header_from_str(got.res.v).ok
             THEN read_headers_one_byte_more(got.reader,
                                             Append(headers, Header_from_str(got.res.v).v))
             ELSE read_headers_one_byte_more(got.reader, headers)

\* a header loop that gives up at the first line that is not a header
RECURSIVE read_headers_strict(_, _)
read_headers_strict(reader, headers) ==
    LET got == read_next_line(reader)
    IN  IF ~got.res.ok THEN [res |-> Err(got.res.err), reader |-> got.reader]
        ELSE IF got.res.v = "" THEN [res |-> Ok(headers), reader |-> got.reader]
        ELSE IF Header_from_str(got.res.v).ok
             THEN read_headers_strict(got.reader, Append(headers, Header_from_str(got.res.v).v))
             ELSE [res |-> Err("BadHeader"), reader |-> got.reader]

RECURSIVE read_headers(_, _)
read_headers(reader, headers) ==
    LET got == read_next_line(reader)
    IN  IF ~got.res.ok THEN [res |-> Err(got.res.err), reader |-> got.reader]
        ELSE IF got.res.v = "" THEN [res |-> Ok(headers), reader |-> got.reader]
        ELSE IF Header_from_str(got.res.v).ok
             THEN read_headers(got.reader, Append(headers, Header_from_str(got.res.v).v))
             ELSE read_headers(got.reader, headers)

\* a reader of responses that collects the header block before it looks at
\* the status line
do_from_read_headers_first(reader) ==
    LET first == read_next_line(reader)
        hs == read_headers(first.reader, <<>>)
        parsed == parse_status_line(first.res.v)
    IN  IF ~first.res.ok THEN [res |-> Err(first.res.err), reader |-> first.reader]
        ELSE IF ~hs.res.ok THEN [res |-> Err(hs.res.err), reader |-> hs.reader]
        ELSE IF ~parsed.ok THEN [res |-> Err(parsed.err), reader |-> hs.reader]
        ELSE [res |-> Ok([url |-> None, status_line |-> first.res.v,
                          index |-> parsed.v.index, status |-> parsed.v.status,
                          headers |-> hs.res.v, unit |-> None, stream |-> None,
                          deadline |-> None]),
              reader |-> hs.reader]

do_from_read(reader) ==
    LET first == read_next_line(reader)
    IN  IF ~first.res.ok THEN [res |-> Err(first.res.err), reader |-> first.reader]
        ELSE LET parsed == parse_status_line(first.res.v)
             IN  IF ~parsed.ok THEN [res |-> Err(parsed.err), reader |-> first.reader]
                 ELSE LET hs == read_headers(first.reader, <<>>)
                      IN  IF ~hs.res.ok THEN [res |-> Err(hs.res.err), reader |-> hs.reader]
                          ELSE [res |-> Ok([url |-> None,
                                            status_line |-> first.res.v,
                                            index |-> parsed.v.index,
                                            status |-> parsed.v.status,
                                            headers |-> hs.res.v,
                                            unit |-> None,
                                            stream |-> None,
                                            deadline |-> None]),
                                reader |-> hs.reader]

(***************************************************************************)
(* Response accessors                                                      *)
(***************************************************************************)
http_version(resp) == Slice(resp.status_line, 0, resp.index.http_version)

status(resp) == resp.status

status_text(resp) == trim(SliceFrom(resp.status_line, resp.index.response_code + 1))

\* Response::header: the value of the first header of that name
header(resp, name) ==
    LET hits == {i \in 1..Len(resp.headers) : Header_is_name(resp.headers[i], name)}
    IN  IF hits = {} THEN None
        ELSE Some(Header_value(resp.headers[CHOOSE i \in hits : \A j \in hits : i <= j]))

\* set_stream: "give away" Unit and Stream to the response
set_stream(resp, url, unit, stream) ==
    [resp EXCEPT !.url = Some(url),
                 !.deadline = IF unit.some THEN unit.v.deadline ELSE @,
                 !.unit = unit,
                 !.stream = Some(stream)]

\* impl FromStr for Response: parse from a cursor, then attach the same cursor
from_str(s) ==
    LET got == do_from_read(Cursor(s))
    IN  IF got.res.ok
        THEN [res |-> Ok(set_stream(got.res.v, "", None, got.reader)), reader |-> got.reader]
        ELSE [res |-> Err(got.res.err), reader |-> got.reader]

\* Response::new
Response_new(status_, status_text_, body) ==
    from_str("HTTP/1.1 " \o fmt_unsigned(status_) \o " " \o status_text_
             \o "\r\n\r\n" \o body \o "\n")

(***************************************************************************)
(* Status classes                                                          *)
(***************************************************************************)
\* a class that takes 300 for a success
ok_up_to_300(resp) == resp.status >= 200 /\ resp.status <= 300

ok(resp) == resp.status >= 200 /\ resp.status <= 299

redirect(resp) == resp.status >= 300 /\ resp.status <= 399

client_error(resp) == resp.status >= 400 /\ resp.status <= 499

server_error(resp) == resp.status >= 500 /\ resp.status <= 599

error(resp) == client_error(resp) \/ server_error(resp)

(***************************************************************************)
(* Content-Type queries                                                    *)
(***************************************************************************)
DEFAULT_CONTENT_TYPE == "text/plain"
DEFAULT_CHARACTER_SET == "utf-8"

\* Response::content_type
content_type(resp) ==
    IF ~header(resp, "content-type").some THEN DEFAULT_CONTENT_TYPE
    ELSE IF find(header(resp, "content-type").v, ";").some
         THEN Slice(header(resp, "content-type").v, 0, find(header(resp, "content-type").v, ";").v)
    ELSE header(resp, "content-type").v

\* charset_from_content_type: what follows the first '=' after the first ';'
charset_from_content_type(h) ==
    IF ~h.some THEN DEFAULT_CHARACTER_SET
    ELSE LET semi == find(h.v, ";")
         IN  IF ~semi.some THEN DEFAULT_CHARACTER_SET
             ELSE LET equal == find(SliceFrom(h.v, semi.v + 1), "=")
                  IN  IF ~equal.some THEN DEFAULT_CHARACTER_SET
                      ELSE trim(SliceFrom(h.v, semi.v + equal.v + 2))

\* Response::charset
charset(resp) == charset_from_content_type(header(resp, "content-type"))

(***************************************************************************)
(* Response::into_reader: the body framing selector.  The reader it builds *)
(* is one of ChunkDecoder, LimitedRead (both inside PoolReturnRead) or the *)
(* bare DeadlineStream.  None stands for the panic of expect() when no     *)
(* stream was attached.  origin is the stream offset at which the body     *)
(* starts (kept for stating properties; the code has no such field).       *)
(***************************************************************************)
\* mutant: the version compared with regard to case
is_http10_case_sensitive(resp) == http_version(resp) = "HTTP/1.0"

is_http10(resp) == eq_ignore_ascii_case(http_version(resp), "HTTP/1.0")

is_close(resp) ==
    IF header(resp, "connection").some
    THEN eq_ignore_ascii_case(header(resp, "connection").v, "close")
    ELSE FALSE

is_head(resp) == IF resp.unit.some THEN resp.unit.v.is_head ELSE FALSE

has_no_body(resp) == is_head(resp) \/ resp.status \in {204, 304}

is_chunked(resp) ==
    IF header(resp, "transfer-encoding").some
    THEN header(resp, "transfer-encoding").v # ""
    ELSE FALSE

\* mutant: a Content-Length header wins over Transfer-Encoding
use_chunked_unless_length(resp) ==
    ~is_http10(resp) /\ ~has_no_body(resp) /\ is_chunked(resp)
        /\ ~header(resp, "content-length").some

use_chunked(resp) == ~is_http10(resp) /\ ~has_no_body(resp) /\ is_chunked(resp)

\* mutant: Connection: close is not looked at
limit_bytes_ignoring_close(resp) ==
    IF is_http10(resp) THEN None
    ELSE IF has_no_body(resp) THEN Some(0)
    ELSE IF header(resp, "content-length").some
         THEN parse_usize(header(resp, "content-length").v)
         ELSE None

\* mutant: a Content-Length that does not parse counts as zero
limit_bytes_or_zero(resp) ==
    IF is_http10(resp) \/ is_close(resp) THEN None
    ELSE IF has_no_body(resp) THEN Some(0)
    ELSE IF header(resp, "content-length").some
         THEN (IF parse_usize(header(resp, "content-length").v).some
               THEN parse_usize(header(resp, "content-length").v)
               ELSE Some(0))
         ELSE None

limit_bytes(resp) ==
    IF is_http10(resp) \/ is_close(resp) THEN None
    ELSE IF has_no_body(resp) THEN Some(0)
    ELSE IF header(resp, "content-length").some
         THEN parse_usize(header(resp, "content-length").v)
         ELSE None

NewReader(kind, pool_return, stream, deadline, limit) ==
    [kind |-> kind, pool_return |-> pool_return, notified |-> FALSE,
     stream |-> stream, deadline |-> deadline,
     limit |-> limit, position |-> 0, origin |-> stream.pos]

LimitedRead_new(stream, deadline, limit) ==
    NewReader("LimitedRead", FALSE, stream, deadline, limit)

\* a selector that reads from an empty stream when none was attached
into_reader_without_stream(resp) ==
    LET deadline == IF resp.unit.some THEN resp.unit.v.deadline ELSE None
        stream == IF resp.stream.some THEN resp.stream.v ELSE Cursor("")
    IN  IF use_chunked(resp)
        THEN Some(NewReader("ChunkDecoder", TRUE, stream, deadline, 0))
        ELSE IF limit_bytes(resp).some
             THEN Some([LimitedRead_new(stream, deadline, limit_bytes(resp).v)
                           EXCEPT !.pool_return = TRUE])
        ELSE Some(NewReader("DeadlineStream", FALSE, stream, deadline, 0))

\* a selector that hands out the exact-length reader without the pool-return hook
into_reader_bare_limited(resp) ==
    LET deadline == IF resp.unit.some THEN resp.unit.v.deadline ELSE None
    IN  IF ~resp.stream.some THEN None
        ELSE IF use_chunked(resp)
             THEN Some(NewReader("ChunkDecoder", TRUE, resp.stream.v, deadline, 0))
        ELSE IF limit_bytes(resp).some
             THEN Some(LimitedRead_new(resp.stream.v, deadline, limit_bytes(resp).v))
        ELSE Some(NewReader("DeadlineStream", FALSE, resp.stream.v, deadline, 0))

into_reader(resp) ==
    LET deadline == IF resp.unit.some THEN resp.unit.v.deadline ELSE None
    IN  IF ~resp.stream.some THEN None
        ELSE IF use_chunked(resp)
             THEN Some(NewReader("ChunkDecoder", TRUE, resp.stream.v, deadline, 0))
        ELSE IF limit_bytes(resp).some
             THEN Some([LimitedRead_new(resp.stream.v, deadline, limit_bytes(resp).v)
                           EXCEPT !.pool_return = TRUE])
        ELSE Some(NewReader("DeadlineStream", FALSE, resp.stream.v, deadline, 0))

(***************************************************************************)
(* Reading.  The stream under a reader is a DeadlineStream over the byte   *)
(* source: a read into a buffer of n bytes returns some of the bytes that  *)
(* are left (a cursor returns as many as fit, a socket at least one), zero *)
(* at end of stream or for an empty buffer, or fails with TimedOut once    *)
(* the deadline, if there is one, has passed.                              *)
(***************************************************************************)
StreamAmounts(stream, n) ==
    IF Min(n, remaining(stream)) = 0 THEN {0}
    ELSE IF stream.kind = "Cursor" THEN {Min(n, remaining(stream))}
    ELSE 1..Min(n, remaining(stream))

DeadlineStream_read(reader, n) ==
    {Ok(k) : k \in StreamAmounts(reader.stream, n)}
        \cup (IF reader.deadline.some THEN {Err("TimedOut")} ELSE {})

\* the reader after amount bytes were taken from its stream
Advance(reader, amount) == [reader EXCEPT !.stream.pos = @ + amount]

Taken(reader, amount) == Slice(reader.stream.data, reader.stream.pos, reader.stream.pos + amount)

\* LimitedRead::read, given what self.reader.read(from) returns (inner)
LimitedRead_left(reader) == reader.limit - reader.position

\* a bounded reader that hands the whole buffer of the caller to its source
LimitedRead_from_unclipped(reader, buf_len) == buf_len

LimitedRead_from(reader, buf_len) ==
    IF LimitedRead_left(reader) < buf_len THEN LimitedRead_left(reader) ELSE buf_len

\* a bounded reader that takes the end of its source for a clean end
LimitedRead_read_clean_end(reader, buf_len, inner) ==
    IF LimitedRead_left(reader) = 0
    THEN [res |-> Ok(0), bytes |-> "", reader |-> reader, inner_read |-> FALSE]
    ELSE IF inner.ok
         THEN [res |-> Ok(inner.v), bytes |-> Taken(reader, inner.v),
               reader |-> [Advance(reader, inner.v) EXCEPT !.position = @ + inner.v],
               inner_read |-> TRUE]
    ELSE [res |-> Err(inner.err), bytes |-> "", reader |-> reader, inner_read |-> TRUE]

LimitedRead_read(reader, buf_len, inner) ==
    IF LimitedRead_left(reader) = 0
    THEN [res |-> Ok(0), bytes |-> "", reader |-> reader, inner_read |-> FALSE]
    ELSE IF inner.ok /\ inner.v = 0
         THEN [res |-> Err("InvalidData"), bytes |-> "", reader |-> reader, inner_read |-> TRUE]
    ELSE IF inner.ok
         THEN [res |-> Ok(inner.v), bytes |-> Taken(reader, inner.v),
               reader |-> [Advance(reader, inner.v) EXCEPT !.position = @ + inner.v],
               inner_read |-> TRUE]
    ELSE [res |-> Err(inner.err), bytes |-> "", reader |-> reader, inner_read |-> TRUE]

\* a read of the bare DeadlineStream (the pass-through strategy)
Passthrough_read(reader, buf_len, inner) ==
    IF inner.ok
    THEN [res |-> Ok(inner.v), bytes |-> Taken(reader, inner.v),
          reader |-> Advance(reader, inner.v), inner_read |-> TRUE]
    ELSE [res |-> Err(inner.err), bytes |-> "", reader |-> reader, inner_read |-> TRUE]

\* PoolReturnRead::read: the connection goes back to the pool on a read of zero bytes
PoolReturnRead_read(out) ==
    IF out.reader.pool_return /\ out.res.ok /\ out.res.v = 0
    THEN [out EXCEPT !.reader.notified = TRUE]
    ELSE out

\* the size of the buffer the reader hands to its stream
InnerLen(reader, buf_len) ==
    IF reader.kind = "LimitedRead" THEN LimitedRead_from(reader, buf_len) ELSE buf_len

Reader_read(reader, buf_len, inner) ==
    IF reader.kind = "LimitedRead"
    THEN PoolReturnRead_read(LimitedRead_read(reader, buf_len, inner))
    ELSE Passthrough_read(reader, buf_len, inner)

(***************************************************************************)
(* Read::read_to_end: reads into a non-empty spare buffer until a read     *)
(* returns zero bytes, or fails with the first error.                      *)
(***************************************************************************)
READ_TO_END_BUF == 32

RECURSIVE read_to_end(_, _)
read_to_end(reader, buf) ==
    LET n == InnerLen(reader, READ_TO_END_BUF)
        inner == Ok(Min(n, remaining(reader.stream)))
        out == Reader_read(reader, READ_TO_END_BUF, inner)
    IN  IF ~out.res.ok THEN [res |-> Err(out.res.err), buf |-> buf, reader |-> out.reader]
        ELSE IF out.res.v = 0 THEN [res |-> Ok(Len(buf)), buf |-> buf, reader |-> out.reader]
        ELSE read_to_end(out.reader, buf \o out.bytes)

(***************************************************************************)
(* The chunk decoder (crate chunked_transfer) drained to its end: chunks   *)
(* of "<hex size>CRLF<data>CRLF" up to a chunk of size zero.               *)
(***************************************************************************)
HexDigits == "0123456789abcdef"

is_hex(c) == \E d \in 0..15 : CharAt(HexDigits, d) = to_ascii_lowercase(c)
hex_value(c) == CHOOSE d \in 0..15 : CharAt(HexDigits, d) = to_ascii_lowercase(c)

RECURSIVE parse_hex(_, _)
parse_hex(s, acc) ==
    IF Len(s) = 0 THEN acc ELSE parse_hex(SliceFrom(s, 1), acc * 16 + hex_value(CharAt(s, 0)))

RECURSIVE decode_chunks(_, _)
decode_chunks(stream, out) ==
    LET line == read_next_line(stream)
        size == parse_hex(line.res.v, 0)
        data == [line.reader EXCEPT !.pos = @ + size]
        tail == read_next_line(data)
    IN  IF ~line.res.ok THEN Err("InvalidInput")
        ELSE IF line.res.v = "" \/ \E i \in 0..(Len(line.res.v) - 1) : ~is_hex(CharAt(line.res.v, i))
             THEN Err("InvalidInput")
        ELSE IF remaining(line.reader) < size THEN Err("InvalidInput")
        ELSE IF ~tail.res.ok \/ tail.res.v # "" THEN Err("InvalidInput")
        ELSE IF size = 0 THEN Ok(out)
        ELSE decode_chunks(tail.reader,
                           out \o Slice(stream.data, line.reader.pos, line.reader.pos + size))

\* the stream offset right after the last chunk of a well-formed chunked body
RECURSIVE decode_chunks_end(_)
decode_chunks_end(stream) ==
    LET line == read_next_line(stream)
        size == parse_hex(line.res.v, 0)
        tail == read_next_line([line.reader EXCEPT !.pos = @ + size])
    IN  IF size = 0 THEN tail.reader.pos ELSE decode_chunks_end(tail.reader)

\* read_to_end on the reader into_reader returned: the chunk decoder inside
\* its PoolReturnRead is read to its end, the other readers read by read
read_to_end_boxed(reader) ==
    IF reader.kind # "ChunkDecoder" THEN read_to_end(reader, "")
    ELSE LET got == decode_chunks(reader.stream, "")
         IN  IF got.ok
             THEN [res |-> Ok(Len(got.v)), buf |-> got.v,
                   reader |-> [reader EXCEPT !.notified = reader.pool_return,
                                             !.stream.pos = decode_chunks_end(reader.stream)]]
             ELSE [res |-> Err(got.err), buf |-> "", reader |-> reader]

\* into_reader().read_to_end(&mut buf): the bytes of the body, or the error
drain(reader) ==
    IF reader.kind = "ChunkDecoder" THEN decode_chunks(reader.stream, "")
    ELSE IF read_to_end(reader, "").res.ok THEN Ok(read_to_end(reader, "").buf)
    ELSE Err(read_to_end(reader, "").res.err)

\* Response::into_string (built without the charset feature)
into_string(resp) ==
    LET got == drain(into_reader(resp).v)
    IN  IF got.ok THEN Ok(from_utf8_lossy(got.v)) ELSE Err(got.err)

(***************************************************************************)
(* Structured documents.  serde_json::from_reader reads its reader to the  *)
(* end: an error of a read comes back as a serde error that carries the    *)
(* io::Error as its source, a text that is no document as a serde error    *)
(* without one.  body_read is what the reads of the body return: the bytes *)
(* or the error.                                                           *)
(***************************************************************************)
JsonDocuments == {"{}", "[]", "null", "1"}

serde_json_from_reader(body_read) ==
    IF ~body_read.ok THEN Err([source |-> Some(body_read.err)])
    ELSE IF from_utf8(body_read.v).ok /\ trim(body_read.v) \in JsonDocuments
         THEN Ok(trim(body_read.v))
    ELSE Err([source |-> None])

\* the reads of the body of a consumed response, with the deadline passed or not
body_read(resp, timed_out) ==
    IF timed_out THEN Err("TimedOut") ELSE drain(into_reader(resp).v)

\* Response::into_json
into_json(resp, timed_out) ==
    LET got == serde_json_from_reader(body_read(resp, timed_out))
    IN  IF got.ok THEN got
        ELSE IF got.err.source.some /\ got.err.source.v = "TimedOut" THEN Err("TimedOut")
        ELSE Err("InvalidData")

\* Response::into_json_deserialize
into_json_deserialize(resp, timed_out) ==
    LET got == serde_json_from_reader(body_read(resp, timed_out))
    IN  IF got.ok THEN got ELSE Err("InvalidData")

(***************************************************************************)
(* Inputs.  A wire text is a status line of one, two or three fields       *)
(* joined by single spaces, CRLF, header lines, an empty line and a body.  *)
(***************************************************************************)
MaxHeaders == 2     \* header lines of a wire text
MaxRead == 2        \* size of the buffer a caller passes to read
MaxLimit == 3       \* declared length of a LimitedRead built directly

VersionTokens == {"HTTP/1.1", "HTTP/1.0", "HTTP", ""}
CodeTokens == {"200", "20", "2", "", "BORKED", "65535", "65536", "+20"}
ReasonTexts == {"", "OK", "Not Found"}

StatusFields ==
    {<<v>> : v \in VersionTokens}
        \cup {<<v, c>> : v \in VersionTokens, c \in CodeTokens}
        \cup {<<v, c, r>> : v \in VersionTokens, c \in CodeTokens, r \in ReasonTexts}

HeaderLines ==
    {"Connection: CLOSE", "Connection: keep-alive",
     "Transfer-Encoding: gzip", "transfer-encoding:",
     "Content-Length: 1", "Content-Length: +5", "Content-Length: x"}

HeaderLists == UNION {[1..n -> HeaderLines] : n \in 0..MaxHeaders}

FramingVersions == {"HTTP/1.1", "http/1.0"}
FramingCodes == {"200", "204", "304"}

ChunkedExample ==
    [fields |-> <<"HTTP/1.1", "200", "OK">>,
     headers |-> <<"Transfer-Encoding: Chunked">>,
     body |-> "3\r\nhel\r\nb\r\nlo world!!!\r\n0\r\n\r\n"]

DocExample ==
    [fields |-> <<"HTTP/1.1", "200", "OK">>,
     headers |-> <<"X-Forwarded-For: 1.2.3.4", "Content-Type: text/plain">>,
     body |-> "Hello World!!!"]

NoiseExample ==
    [fields |-> <<"HTTP/1.1", "200", "OK">>,
     headers |-> <<"noise", "Content-Length: 1", "more noise">>,
     body |-> "ab"]

\* the status line of tests::parse_borked_header, followed by a header block
BorkedExample ==
    [fields |-> <<"HTTP/1.1", "BORKED">>,
     headers |-> <<"Content-Length: 1">>,
     body |-> "ab"]

\* a header block with noise and a repeated header, and a body that looks
\* like one more header block
RepeatedExample ==
    [fields |-> <<"HTTP/1.1", "200", "OK">>,
     headers |-> <<"noise", "Set-Cookie: a", "Set-Cookie: a", "more noise", "Set-Cookie: b">>,
     body |-> "Set-Cookie: c\r\n\r\n"]

\* a response whose body is a JSON document
JsonExample ==
    [fields |-> <<"HTTP/1.1", "200", "OK">>,
     headers |-> <<"Content-Length: 3">>,
     body |-> "{}\n"]

\* responses that say what their body is
ContentTypeLines ==
    {"Content-Type: application/json; charset=iso-8859-4",
     "Content-Type: application/json",
     "Content-Type: text/html;",
     "Content-Type: text/html; charset= UTF-8 ",
     "Content-Type: multipart/form-data; boundary=xyz"}

ContentTypeCalls ==
    {[fields |-> <<"HTTP/1.1", "200", "OK">>, headers |-> <<l>>, body |-> "OK"] :
        l \in ContentTypeLines}

\* the texts parsed with from_str
StrCalls ==
    {[fields |-> f, headers |-> <<>>, body |-> "ab"] : f \in StatusFields}
        \cup {ChunkedExample, DocExample, NoiseExample, BorkedExample, RepeatedExample, JsonExample}
        \cup ContentTypeCalls

\* the texts a connection delivers
WireCalls ==
    {[fields |-> f, headers |-> <<>>, body |-> "ab"] : f \in StatusFields}
        \cup {[fields |-> <<v, c, "OK">>, headers |-> hs, body |-> "ab"] :
                 v \in FramingVersions, c \in FramingCodes, hs \in HeaderLists}
        \cup {BorkedExample, JsonExample}

RECURSIVE Join(_, _)
Join(parts, sep) ==
    IF Len(parts) = 0 THEN ""
    ELSE IF Len(parts) = 1 THEN parts[1]
    ELSE parts[1] \o sep \o Join(Tail(parts), sep)

RECURSIVE Lines(_)
Lines(ls) == IF Len(ls) = 0 THEN "" ELSE ls[1] \o "\r\n" \o Lines(Tail(ls))

StatusLine(c) == Join(c.fields, " ")

Wire(c) == StatusLine(c) \o "\r\n" \o Lines(c.headers) \o "\r\n" \o c.body

\* the request context handed over with the stream
Units ==
    {None,
     Some([is_head |-> FALSE, deadline |-> None]),
     Some([is_head |-> TRUE, deadline |-> None]),
     Some([is_head |-> FALSE, deadline |-> Some("instant")])}

NewStatuses == {5, 200, 204, 304, 404}
NewStatusTexts == {"", "OK", "Not Found"}
NewBodies == {"", "hi", "Please log in"}

SourceData == {"", "ab", "abcd"}

\* the status codes whose class is asked: every code up to MaxStatus and the
\* largest u16
MaxStatus == 650

StatusCodes == 0..MaxStatus \cup {65535}

\* a code as a status token of two digits or more
StatusToken(n) == IF n < 10 THEN "0" \o fmt_unsigned(n) ELSE fmt_unsigned(n)

\* the byte sequences handed to the line reader: every text of at most
\* MaxLine bytes over a letter, CR and LF
MaxLine == 4

LineBytes == {"a", "\r", "\n"}

RECURSIVE Texts(_)
Texts(n) ==
    IF n = 0 THEN {""}
    ELSE Texts(n - 1) \cup {t \o b : t \in {u \in Texts(n - 1) : Len(u) = n - 1}, b \in LineBytes}

\* the responses a peer starts to send before it closes the connection
ShortCalls ==
    {[fields |-> <<"HTTP/1.1", "200", "OK">>, headers |-> <<"Content-Length: 1">>, body |-> ""],
     [fields |-> <<"HTTP/1.1", "200">>, headers |-> <<>>, body |-> ""]}

(***************************************************************************)
(* State                                                                   *)
(***************************************************************************)
VARIABLES
    pc,         \* "idle", "failed", "parsed", "attached", "reading", "drained", "panicked"
    call,       \* the arguments of the constructing call
    wire,       \* the byte source the caller still holds
    resp,       \* the Response
    reader,     \* the body reader into_reader returned
    result,     \* what the last operation returned
    delivered   \* the bytes the reads of the body have delivered so far

vars == <<pc, call, wire, resp, reader, result, delivered>>

(***************************************************************************)
(* The test server (test/testserver.rs): a listener thread that accepts    *)
(* connections and spawns a handler thread for each, until it finds the    *)
(* stop flag set.  Connections are numbered in the order they are made;    *)
(* SelfConnect is the connection Drop makes.                               *)
(***************************************************************************)
MaxClients == 3     \* connections made by clients

SelfConnect == 0

VARIABLES
    done,             \* the AtomicBool shared by the TestServer and the listener thread
    incoming,         \* connections made and not yet accepted, oldest first
    listener_pc,      \* "accept", "check" (a stream was accepted), "exited"
    accepted_stream,  \* the stream the listener thread holds
    accepted,         \* every accepted connection with the flag as it was then
    handled,          \* the connections a handler thread was spawned for
    drop_pc,          \* "alive", "stored", "dropped", "panicked"
    connected         \* the number of connections clients have made

server_vars ==
    <<done, incoming, listener_pc, accepted_stream, accepted, handled, drop_pc, connected>>

\* TestServer::new: the listener is bound, the flag is false, the thread runs
TestServer_new ==
    /\ done = FALSE
    /\ incoming = <<>>
    /\ listener_pc = "accept"
    /\ accepted_stream = None
    /\ accepted = {}
    /\ handled = {}
    /\ drop_pc = "alive"
    /\ connected = 0

Init ==
    /\ pc = "idle"
    /\ call = [op |-> "none"]
    /\ wire = None
    /\ resp = None
    /\ reader = None
    /\ result = [op |-> "none"]
    /\ delivered = ""
    /\ TestServer_new

\* s.parse::<Response>()
FromStr ==
    /\ pc = "idle"
    /\ \E c \in StrCalls :
          LET got == from_str(Wire(c))
          IN  /\ call' = [op |-> "from_str", fields |-> c.fields,
                          headers |-> c.headers, body |-> c.body]
              /\ resp' = IF got.res.ok THEN Some(got.res.v) ELSE None
              /\ pc' = IF got.res.ok THEN "attached" ELSE "failed"
              /\ result' = [op |-> "from_str", res |-> got.res, consumed |-> got.reader.pos]
    /\ UNCHANGED <<wire, reader, delivered, server_vars>>

\* Response::new(status, status_text, body)
ResponseNew ==
    /\ pc = "idle"
    /\ \E st \in NewStatuses, text \in NewStatusTexts, body \in NewBodies :
          LET got == Response_new(st, text, body)
          IN  /\ call' = [op |-> "new", status |-> st, status_text |-> text, body |-> body,
                          fields |-> <<"HTTP/1.1", fmt_unsigned(st), text>>, headers |-> <<>>]
              /\ resp' = IF got.res.ok THEN Some(got.res.v) ELSE None
              /\ pc' = IF got.res.ok THEN "attached" ELSE "failed"
              /\ result' = [op |-> "new", res |-> got.res, consumed |-> got.reader.pos]
    /\ UNCHANGED <<wire, reader, delivered, server_vars>>

\* Response::do_from_read(&mut stream) on a connection the caller keeps
DoFromRead ==
    /\ pc = "idle"
    /\ \E c \in WireCalls :
          LET got == do_from_read(Tcp(Wire(c)))
          IN  /\ call' = [op |-> "do_from_read", fields |-> c.fields,
                          headers |-> c.headers, body |-> c.body]
              /\ resp' = IF got.res.ok THEN Some(got.res.v) ELSE None
              /\ pc' = IF got.res.ok THEN "parsed" ELSE "failed"
              /\ wire' = Some(got.reader)
              /\ result' = [op |-> "do_from_read", res |-> got.res, consumed |-> got.reader.pos]
    /\ UNCHANGED <<reader, delivered, server_vars>>

\* set_stream(&mut resp, url, unit, stream)
SetStream ==
    /\ pc = "parsed"
    /\ \E unit \in Units :
          resp' = Some(set_stream(resp.v, "http://example.com/", unit, wire.v))
    /\ wire' = None
    /\ pc' = "attached"
    /\ result' = [op |-> "set_stream"]
    /\ UNCHANGED <<call, reader, delivered, server_vars>>

\* resp.into_reader(): the response is consumed
IntoReader ==
    /\ pc \in {"parsed", "attached"}
    /\ reader' = into_reader(resp.v)
    /\ pc' = IF into_reader(resp.v).some THEN "reading" ELSE "panicked"
    /\ result' = [op |-> "into_reader", self |-> resp.v]
    /\ resp' = None
    /\ UNCHANGED <<call, wire, delivered, server_vars>>

\* LimitedRead::new(reader, limit), as the test short_read builds it
LimitedReadNew ==
    /\ pc = "idle"
    /\ \E data \in SourceData, limit \in 0..MaxLimit, kind \in {"Cursor", "Tcp"} :
          /\ reader' = Some(LimitedRead_new([kind |-> kind, data |-> data, pos |-> 0], None, limit))
          /\ call' = [op |-> "LimitedRead::new", data |-> data, limit |-> limit]
    /\ pc' = "reading"
    /\ result' = [op |-> "LimitedRead::new"]
    /\ UNCHANGED <<wire, resp, delivered, server_vars>>

\* reader.read(&mut buf) with a buffer of n bytes
Read ==
    /\ pc = "reading"
    /\ reader.v.kind # "ChunkDecoder"
    /\ \E n \in 0..MaxRead :
          \E inner \in DeadlineStream_read(reader.v, InnerLen(reader.v, n)) :
             LET out == Reader_read(reader.v, n, inner)
             IN  /\ reader' = Some(out.reader)
                 /\ delivered' = delivered \o out.bytes
                 /\ result' = [op |-> "read", requested |-> n, res |-> out.res,
                               inner_read |-> out.inner_read, inner |-> inner,
                               before |-> reader.v]
    /\ UNCHANGED <<pc, call, wire, resp, server_vars>>

\* reader.read_to_end(&mut buf), as the test short_read drains its reader
ReadToEnd ==
    /\ pc = "reading"
    /\ \E timed_out \in (IF reader.v.deadline.some THEN BOOLEAN ELSE {FALSE}) :
          LET out == read_to_end_boxed(reader.v)
          IN  IF timed_out
              THEN /\ result' = [op |-> "read_to_end", res |-> Err("TimedOut"), before |-> reader.v]
                   /\ UNCHANGED <<reader, delivered>>
              ELSE /\ result' = [op |-> "read_to_end", res |-> out.res, before |-> reader.v]
                   /\ reader' = Some(out.reader)
                   /\ delivered' = delivered \o out.buf
    /\ pc' = "drained"
    /\ UNCHANGED <<call, wire, resp, server_vars>>

\* resp.into_string(): the response is consumed and its body drained
IntoString ==
    /\ pc \in {"parsed", "attached"}
    /\ IF ~into_reader(resp.v).some
       THEN /\ pc' = "panicked"
            /\ result' = [op |-> "into_string", self |-> resp.v]
       ELSE /\ pc' = "drained"
            /\ \E timed_out \in (IF into_reader(resp.v).v.deadline.some THEN BOOLEAN ELSE {FALSE}) :
                  result' = [op |-> "into_string", self |-> resp.v,
                             res |-> IF timed_out THEN Err("TimedOut") ELSE into_string(resp.v)]
    /\ resp' = None
    /\ UNCHANGED <<call, wire, reader, delivered, server_vars>>

\* resp.into_json(): the response is consumed and its body decoded
IntoJson ==
    /\ pc \in {"parsed", "attached"}
    /\ IF ~into_reader(resp.v).some
       THEN /\ pc' = "panicked"
            /\ result' = [op |-> "into_json", self |-> resp.v]
       ELSE /\ pc' = "drained"
            /\ \E timed_out \in (IF into_reader(resp.v).v.deadline.some THEN BOOLEAN ELSE {FALSE}) :
                  result' = [op |-> "into_json", self |-> resp.v,
                             body_read |-> body_read(resp.v, timed_out),
                             res |-> into_json(resp.v, timed_out)]
    /\ resp' = None
    /\ UNCHANGED <<call, wire, reader, delivered, server_vars>>

\* resp.into_json_deserialize::<T>(): the response is consumed and its body decoded
IntoJsonDeserialize ==
    /\ pc \in {"parsed", "attached"}
    /\ IF ~into_reader(resp.v).some
       THEN /\ pc' = "panicked"
            /\ result' = [op |-> "into_json_deserialize", self |-> resp.v]
       ELSE /\ pc' = "drained"
            /\ \E timed_out \in (IF into_reader(resp.v).v.deadline.some THEN BOOLEAN ELSE {FALSE}) :
                  result' = [op |-> "into_json_deserialize", self |-> resp.v,
                             body_read |-> body_read(resp.v, timed_out),
                             res |-> into_json_deserialize(resp.v, timed_out)]
    /\ resp' = None
    /\ UNCHANGED <<call, wire, reader, delivered, server_vars>>

\* resp.charset() and resp.content_type(): queries that leave the response as it is
ContentTypeQuery ==
    /\ pc \in {"parsed", "attached"}
    /\ result' = [op |-> "charset", charset |-> charset(resp.v),
                  content_type |-> content_type(resp.v)]
    /\ UNCHANGED <<pc, call, wire, resp, reader, delivered, server_vars>>

\* resp.ok(), resp.redirect(), resp.client_error(), resp.server_error() and
\* resp.error() on the response parsed from a status line with that code
StatusClass ==
    /\ pc = "idle"
    /\ \E n \in StatusCodes :
          LET got == from_str("HTTP/1.1 " \o StatusToken(n) \o " X\r\n\r\n")
          IN  /\ call' = [op |-> "status_class", status |-> n]
              /\ result' = [op |-> "status_class",
                            status |-> status(got.res.v),
                            ok |-> ok(got.res.v),
                            redirect |-> redirect(got.res.v),
                            client_error |-> client_error(got.res.v),
                            server_error |-> server_error(got.res.v),
                            error |-> error(got.res.v)]
    /\ pc' = "queried"
    /\ UNCHANGED <<wire, resp, reader, delivered, server_vars>>

\* read_next_line(&mut reader) on a source holding any bytes
ReadNextLine ==
    /\ pc = "idle"
    /\ \E data \in Texts(MaxLine) :
          LET got == read_next_line(Cursor(data))
          IN  /\ call' = [op |-> "read_next_line", data |-> data]
              /\ result' = [op |-> "read_next_line", res |-> got.res,
                            consumed |-> got.reader.pos]
    /\ pc' = "line"
    /\ UNCHANGED <<wire, resp, reader, delivered, server_vars>>

\* Response::do_from_read(&mut stream) on a connection the peer closes
\* after the first sent bytes of the response
DoFromReadShort ==
    /\ pc = "idle"
    /\ \E c \in ShortCalls :
          \E sent \in 0..Len(Wire(c)) :
             LET got == do_from_read(Tcp(Slice(Wire(c), 0, sent)))
             IN  /\ call' = [op |-> "do_from_read", fields |-> c.fields,
                             headers |-> c.headers, body |-> c.body, sent |-> sent]
                 /\ resp' = IF got.res.ok THEN Some(got.res.v) ELSE None
                 /\ pc' = IF got.res.ok THEN "parsed" ELSE "failed"
                 /\ wire' = Some(got.reader)
                 /\ result' = [op |-> "do_from_read_short", res |-> got.res,
                               consumed |-> got.reader.pos]
    /\ UNCHANGED <<reader, delivered, server_vars>>

Next ==
    \/ FromStr
    \/ ResponseNew
    \/ DoFromRead
    \/ SetStream
    \/ IntoReader
    \/ LimitedReadNew
    \/ Read
    \/ ReadToEnd
    \/ IntoString
    \/ StatusClass
    \/ ContentTypeQuery
    \/ IntoJson
    \/ IntoJsonDeserialize
    \/ ReadNextLine
    \/ DoFromReadShort

Spec == Init /\ [][Next]_<<vars, server_vars>>

(***************************************************************************)
(* The threads of the test server                                          *)
(***************************************************************************)
\* a listener thread that spawns a handler whatever the flag says
listener_check_ignoring_done ==
    /\ listener_pc = "check"
    /\ handled' = handled \cup {accepted_stream.v}
    /\ listener_pc' = "accept"
    /\ accepted_stream' = None
    /\ UNCHANGED <<done, incoming, accepted, drop_pc, connected, vars>>

\* a client connects to the port; the listener is open as long as its thread runs
client_connect ==
    /\ listener_pc # "exited"
    /\ connected < MaxClients
    /\ connected' = connected + 1
    /\ incoming' = Append(incoming, connected + 1)
    /\ UNCHANGED <<done, listener_pc, accepted_stream, accepted, handled, drop_pc, vars>>

\* listener.incoming() yields the next connection
listener_accept ==
    /\ listener_pc = "accept"
    /\ incoming # <<>>
    /\ accepted_stream' = Some(Head(incoming))
    /\ incoming' = Tail(incoming)
    /\ accepted' = accepted \cup {[stream |-> Head(incoming), done |-> done]}
    /\ listener_pc' = "check"
    /\ UNCHANGED <<done, handled, drop_pc, connected, vars>>

\* listener.incoming() yields an error: the loop is left
listener_accept_error ==
    /\ listener_pc = "accept"
    /\ listener_pc' = "exited"
    /\ UNCHANGED <<done, incoming, accepted_stream, accepted, handled, drop_pc, connected, vars>>

\* done.load(): break, or spawn the handler thread with the stream
listener_check ==
    /\ listener_pc = "check"
    /\ handled' = IF done THEN handled ELSE handled \cup {accepted_stream.v}
    /\ listener_pc' = IF done THEN "exited" ELSE "accept"
    /\ accepted_stream' = None
    /\ UNCHANGED <<done, incoming, accepted, drop_pc, connected, vars>>

\* Drop: self.done.store(true)
drop_store ==
    /\ drop_pc = "alive"
    /\ done' = TRUE
    /\ drop_pc' = "stored"
    /\ UNCHANGED <<incoming, listener_pc, accepted_stream, accepted, handled, connected, vars>>

\* Drop: TcpStream::connect(..).unwrap(), refused once the listener is gone
drop_connect ==
    /\ drop_pc = "stored"
    /\ drop_pc' = IF listener_pc # "exited" THEN "dropped" ELSE "panicked"
    /\ incoming' = IF listener_pc # "exited" THEN Append(incoming, SelfConnect) ELSE incoming
    /\ UNCHANGED <<done, listener_pc, accepted_stream, accepted, handled, connected, vars>>

ServerNext ==
    \/ client_connect
    \/ listener_accept
    \/ listener_accept_error
    \/ listener_check
    \/ drop_store
    \/ drop_connect

\* the listener thread is scheduled: it takes a pending connection and it
\* goes on after accept returned
ServerSpec ==
    /\ Init
    /\ [][ServerNext]_<<vars, server_vars>>
    /\ WF_<<vars, server_vars>>(listener_accept)
    /\ WF_<<vars, server_vars>>(listener_check)

(***************************************************************************)
(* Properties of the body framing selector.  They are stated on the state  *)
(* right after into_reader returned a reader: result.self is the Response  *)
(* it consumed and call holds the text that Response was parsed from.      *)
(* Headers are looked up as Response::header does: the first header whose  *)
(* name matches without regard to case, its value trimmed.                 *)
(***************************************************************************)
Selected == pc = "reading" /\ result.op = "into_reader"

\* the value of the first line of call.headers that is a header of that name
RECURSIVE FirstValue(_, _)
FirstValue(lines, name) ==
    IF Len(lines) = 0 THEN None
    ELSE IF /\ Len(lines[1]) > Len(name)
            /\ eq_ignore_ascii_case(Slice(lines[1], 0, Len(name)), name)
            /\ CharAt(lines[1], Len(name)) = ":"
         THEN Some(trim(SliceFrom(lines[1], Len(name) + 1)))
    ELSE FirstValue(Tail(lines), name)

VersionIs10 == eq_ignore_ascii_case(call.fields[1], "HTTP/1.0")

MethodIsHead == result.self.unit.some /\ result.self.unit.v.is_head

Bodiless == MethodIsHead \/ call.fields[2] \in {"204", "304"}

HasTransferEncoding ==
    /\ FirstValue(call.headers, "Transfer-Encoding").some
    /\ FirstValue(call.headers, "Transfer-Encoding").v # ""

HasConnectionClose ==
    /\ FirstValue(call.headers, "Connection").some
    /\ eq_ignore_ascii_case(FirstValue(call.headers, "Connection").v, "close")

ContentLength ==
    IF FirstValue(call.headers, "Content-Length").some
    THEN parse_usize(FirstValue(call.headers, "Content-Length").v)
    ELSE None

ChunkDecoding == reader.v.kind = "ChunkDecoder"
ExactLength(n) == reader.v.kind = "LimitedRead" /\ reader.v.limit = n
UntilClose == reader.v.kind = "DeadlineStream"

\* C1: a response that is not HTTP/1.0 and is bodiless (HEAD request, status
\* 204 or 304) gets the exact-length reader of length zero, whatever its
\* Connection, Transfer-Encoding and Content-Length headers are.
C1_BodilessIsZeroLength ==
    (Selected /\ ~VersionIs10 /\ Bodiless) => ExactLength(0)

\* C2: a response that is not HTTP/1.0 and not bodiless and whose
\* Transfer-Encoding header is present and not empty gets the chunk decoder,
\* whatever its Content-Length and Connection headers are.
C2_TransferEncodingIsChunked ==
    (Selected /\ ~VersionIs10 /\ ~Bodiless /\ HasTransferEncoding) => ChunkDecoding

C2_Witness ==
    /\ Selected /\ ~VersionIs10 /\ ~Bodiless /\ HasTransferEncoding
    /\ ContentLength.some
    /\ ChunkDecoding

C5_ContentLengthIsExactLength ==
    Selected =>
        /\ reader.v.kind \in {"ChunkDecoder", "LimitedRead", "DeadlineStream"}
        /\ (~VersionIs10 /\ ~Bodiless /\ ~HasTransferEncoding /\ ~HasConnectionClose) =>
              /\ ContentLength.some => ExactLength(ContentLength.v)
              /\ ~ContentLength.some => UntilClose

C5_Witness ==
    /\ Selected /\ ~VersionIs10 /\ ~Bodiless /\ ~HasTransferEncoding /\ ~HasConnectionClose
    /\ Len(call.headers) = 2
    /\ call.headers[1] = "Content-Length: +5"
    /\ ExactLength(5)

(***************************************************************************)
(* Properties of the bounded reader.  They are stated on the state right   *)
(* after a read: result.before is the reader as the read found it,         *)
(* result.requested the size of the caller's buffer, result.inner what the *)
(* underlying source returned.                                             *)
(***************************************************************************)
AfterLimitedRead == result.op = "read" /\ result.before.kind = "LimitedRead"

\* the bytes the source held when the bounded reader was built
SourceHeld(r) == Len(r.stream.data) - r.origin

\* C6: when the source of a bounded reader reports its end (a read of zero
\* bytes) while fewer than L bytes were delivered, a read of any non-zero
\* size fails with InvalidData and delivers nothing; draining a reader whose
\* source is shorter than L ends in an error.
C6_PrematureEndIsInvalidData ==
    /\ (/\ AfterLimitedRead
        /\ result.requested > 0
        /\ result.before.position < result.before.limit
        /\ remaining(result.before.stream) = 0
        /\ result.inner = Ok(0))
           => /\ result.res = Err("InvalidData")
              /\ reader.v.position = result.before.position
    /\ (/\ result.op = "read_to_end"
        /\ result.before.kind = "LimitedRead"
        /\ remaining(result.before.stream) < result.before.limit - result.before.position)
           => /\ ~result.res.ok
              /\ ~result.before.deadline.some => result.res = Err("InvalidData")

C6_Witness ==
    /\ AfterLimitedRead
    /\ result.before.position > 0
    /\ remaining(result.before.stream) = 0
    /\ result.requested > 0
    /\ result.requested < result.before.limit - result.before.position
    /\ result.res = Err("InvalidData")

\* C7: a bounded reader over a source that holds at least L bytes delivers,
\* read after read, the first L bytes of the source in order and without
\* error; once L bytes were delivered every read returns zero bytes without
\* reading the source, which is left right after the L-th byte.
C7_DeliversFirstBytes ==
    (/\ AfterLimitedRead
     /\ ~result.before.deadline.some
     /\ SourceHeld(result.before) >= result.before.limit)
        => /\ result.res.ok
           /\ delivered = Slice(reader.v.stream.data, reader.v.origin,
                                 reader.v.origin + reader.v.position)
           /\ result.before.position = result.before.limit =>
                 /\ result.res = Ok(0)
                 /\ ~result.inner_read
                 /\ reader.v.stream.pos = reader.v.origin + reader.v.limit

(***************************************************************************)
(* Properties of Response::new and of the status line parser.  They are    *)
(* stated on the state right after the call: call holds its arguments,     *)
(* result.res what it returned and result.consumed the number of bytes it  *)
(* took from its source.                                                   *)
(***************************************************************************)
\* C8: for a Response built by Response::new(status, status_text, body),
\* status() is status, status_text() is status_text and into_string() is
\* body.
C8_NewRoundTrip ==
    (result.op = "into_string" /\ call.op = "new")
        => /\ status(result.self) = call.status
           /\ status_text(result.self) = call.status_text
           /\ result.res = Ok(call.body)

Parsed == result.op \in {"from_str", "do_from_read", "new"}

CodeIsU16 == Len(call.fields) >= 2 /\ parse_u16(call.fields[2]).some

\* C9: a status line of fewer than two space-delimited fields fails with
\* BadStatus and no Response is constructed; a line of two fields, a version
\* token of five characters or more and a code token of two characters or
\* more that parses as u16, with no reason phrase (HTTP/1.1 200), is
\* accepted: the status is the code and the status text is empty.
C9_FewerThanTwoFieldsIsBadStatus ==
    Parsed =>
        /\ Len(call.fields) < 2 => (result.res = Err("BadStatus") /\ resp = None)
        /\ (/\ Len(call.fields) = 2
            /\ Len(call.fields[1]) >= 5
            /\ Len(call.fields[2]) >= 2
            /\ CodeIsU16)
               => /\ result.res.ok
                  /\ resp.some
                  /\ status(resp.v) = parse_u16(call.fields[2]).v
                  /\ status_text(resp.v) = ""

C9_Witness ==
    /\ Parsed
    /\ call.fields = <<"HTTP/1.1">>
    /\ result.res = Err("BadStatus")
    /\ resp = None

\* C9 as stated: every status line of fewer than three fields fails with
\* BadStatus and no Response is constructed.
C9_FewerThanThreeFieldsIsBadStatus ==
    (Parsed /\ Len(call.fields) < 3) => (result.res = Err("BadStatus") /\ resp = None)

\* C10: a status line whose version token is shorter than 5 characters, or
\* whose code token is shorter than 2 characters or does not parse as u16,
\* fails with BadStatus; only the status line and its CRLF were taken from
\* the source, and no Response is constructed.
C10_MalformedTokensAreBadStatus ==
    (/\ Parsed
     /\ IF Len(call.fields[1]) < 5 THEN TRUE
        ELSE Len(call.fields) >= 2 /\ (Len(call.fields[2]) < 2 \/ ~CodeIsU16))
        => /\ result.res = Err("BadStatus")
           /\ resp = None
           /\ result.consumed = Len(StatusLine(call)) + 2

C10_Witness ==
    /\ Parsed
    /\ call.fields = <<"HTTP/1.1", "BORKED">>
    /\ Len(call.headers) = 1
    /\ result.res = Err("BadStatus")
    /\ resp = None
    /\ result.consumed = Len("HTTP/1.1 BORKED") + 2

(***************************************************************************)
(* Properties of the line reader and of the header block.                  *)
(***************************************************************************)
\* the offsets at which a CR is immediately followed by an LF
CRLFs(data) ==
    {i \in 0..(Len(data) - 2) : CharAt(data, i) = "\r" /\ CharAt(data, i + 1) = "\n"}

FirstCRLF(data) == CHOOSE i \in CRLFs(data) : \A j \in CRLFs(data) : i <= j

\* C11: for every byte sequence the line reader ends the line at the first
\* LF that immediately follows a CR, and nowhere else: the line returned is
\* the bytes before that CRLF (bare LFs and lone CRs stay inside it), the
\* CRLF is consumed and removed, and without a CRLF no line is returned.
C11_LineEndsAtCRLFOnly ==
    result.op = "read_next_line" =>
        IF CRLFs(call.data) = {}
        THEN ~result.res.ok
        ELSE /\ result.res = Ok(Slice(call.data, 0, FirstCRLF(call.data)))
             /\ result.consumed = FirstCRLF(call.data) + 2

C11_Witness ==
    /\ result.op = "read_next_line"
    /\ call.data = "\n\r\r\n"
    /\ result.res = Ok("\n\r")

\* the bytes of a response up to and including the empty line
HeadLen(c) == Len(StatusLine(c)) + 2 + Len(Lines(c.headers)) + 2

\* C12: when the peer closes before the CRLF of the status line or of a
\* header line, or before the empty line that closes the header block,
\* construction fails with ConnectionAborted and there is no Response; when
\* the empty line was received the header block ends there without error.
C12_EarlyEndIsConnectionAborted ==
    result.op = "do_from_read_short" =>
        IF call.sent < HeadLen(call)
        THEN result.res = Err("ConnectionAborted") /\ resp = None
        ELSE /\ result.res.ok
             /\ resp.some
             /\ result.consumed = HeadLen(call)

C12_Witness ==
    /\ result.op = "do_from_read_short"
    /\ Len(call.headers) = 1
    /\ call.sent = HeadLen(call) - 2
    /\ result.res = Err("ConnectionAborted")
    /\ resp = None

\* the lines that are headers (they hold a colon), in their order
RECURSIVE HeaderLike(_)
HeaderLike(lines) ==
    IF Len(lines) = 0 THEN <<>>
    ELSE IF \E i \in 0..(Len(lines[1]) - 1) : CharAt(lines[1], i) = ":"
         THEN <<lines[1]>> \o HeaderLike(Tail(lines))
    ELSE HeaderLike(Tail(lines))

\* C13: a line of the header block that is not a header is skipped without
\* error; the headers of the Response are exactly the lines that are
\* headers, in wire order with repeated ones kept, and the block ends at
\* the first empty line: nothing after it is read.
C13_BadHeaderLinesAreSkipped ==
    (Parsed /\ result.res # Err("BadStatus"))
        => /\ result.res.ok
           /\ resp.some
           /\ [i \in 1..Len(resp.v.headers) |-> resp.v.headers[i].line] = HeaderLike(call.headers)
           /\ result.consumed = HeadLen(call)

C13_Witness ==
    /\ Parsed
    /\ Len(call.headers) = 5
    /\ call.headers[1] = "noise"
    /\ result.res.ok
    /\ Len(resp.v.headers) = 3
    /\ Header_value(resp.v.headers[2]) = "a"
    /\ Header_value(resp.v.headers[3]) = "b"

(***************************************************************************)
(* Properties of the structured-document entry points.  They are stated on *)
(* the state right after into_json or into_json_deserialize returned:      *)
(* result.body_read is what the reads of the body returned.                *)
(***************************************************************************)
Decoded == result.op \in {"into_json", "into_json_deserialize"} /\ pc = "drained"

\* C14: for into_json and for into_json_deserialize, when the read of the
\* body fails because the deadline has passed the caller gets the TimedOut
\* error a raw read returns, not InvalidData; when the body was read and is
\* no document the caller gets InvalidData.
C14_TimeoutIsUnified ==
    Decoded =>
        /\ result.body_read = Err("TimedOut") => result.res = Err("TimedOut")
        /\ (result.body_read.ok /\ trim(result.body_read.v) \notin JsonDocuments)
              => result.res = Err("InvalidData")

(***************************************************************************)
(* Properties of the Content-Type queries.  The parameters of a value are  *)
(* the pieces that follow its first ';', separated by ';'.                 *)
(***************************************************************************)
RECURSIVE Pieces(_)
Pieces(v) ==
    IF ~find(v, ";").some THEN <<v>>
    ELSE <<Slice(v, 0, find(v, ";").v)>> \o Pieces(SliceFrom(v, find(v, ";").v + 1))

IsCharsetParameter(piece) ==
    Len(trim(piece)) >= 8 /\ Slice(trim(piece), 0, 8) = "charset="

\* the value of the first charset= parameter of the Content-Type header
CharsetParameter ==
    LET ct == FirstValue(call.headers, "Content-Type")
        ps == IF ct.some THEN Tail(Pieces(ct.v)) ELSE <<>>
        hits == {i \in 1..Len(ps) : IsCharsetParameter(ps[i])}
    IN  IF hits = {} THEN None
        ELSE Some(trim(SliceFrom(trim(ps[CHOOSE i \in hits : \A j \in hits : i <= j]), 8)))

\* C15: charset() is utf-8 when there is no Content-Type header or its value
\* has no charset= parameter, other parameters or not, and is the trimmed
\* value of the charset= parameter when there is one.
C15_CharsetOrDefault ==
    result.op = "charset" =>
        result.charset = (IF CharsetParameter.some THEN CharsetParameter.v ELSE "utf-8")

(***************************************************************************)
(* Properties of the pool-return hook.  reader.v.pool_return says that the *)
(* reader is inside a PoolReturnRead, reader.v.notified that the hook has  *)
(* handed the connection back.                                             *)
(***************************************************************************)
Boxed == pc \in {"reading", "drained"} /\ reader.some /\ call.op # "LimitedRead::new"

Drained == Boxed /\ result.op = "read_to_end" /\ result.res.ok

\* C16: the chunk decoder and the exact-length reader returned by
\* into_reader are inside the pool-return hook, and the hook is notified
\* when such a body was drained to its end; the pass-through reader is the
\* bare stream: it has no hook and draining it notifies nobody.
C16_FramedReadersReturnToPool ==
    /\ Boxed => (reader.v.pool_return <=> reader.v.kind \in {"ChunkDecoder", "LimitedRead"})
    /\ Boxed => (reader.v.notified => reader.v.pool_return)
    /\ Drained => (reader.v.notified <=> reader.v.kind \in {"ChunkDecoder", "LimitedRead"})

C16_Witness ==
    /\ Drained
    /\ reader.v.kind = "LimitedRead"
    /\ reader.v.limit > 0
    /\ reader.v.position = reader.v.limit
    /\ reader.v.notified

\* C16 as stated: each of the three readers is inside the pool-return hook
\* and the hook is notified when the body was drained.
C16_EveryReaderReturnsToPool ==
    /\ Boxed => reader.v.pool_return
    /\ Drained => reader.v.notified

(***************************************************************************)
(* The lifecycle of a Response: headers-only after do_from_read, body-     *)
(* attached after set_stream, consumed by the one body access.             *)
(***************************************************************************)
BodyAccesses == {"into_reader", "into_string", "into_json", "into_json_deserialize"}

HeadersOnly == resp.some /\ ~resp.v.stream.some
BodyAttached == resp.some /\ resp.v.stream.some

LifecycleStep ==
    /\ (HeadersOnly /\ BodyAttached') => result'.op = "set_stream"
    /\ (BodyAttached /\ resp'.some) => (BodyAttached' /\ resp'.v.stream = resp.v.stream)
    /\ result'.op \in BodyAccesses => (resp.some /\ resp' = None)
    /\ (resp.some /\ resp' = None) =>
          /\ result'.op \in BodyAccesses
          /\ result'.self = resp.v
          /\ IF BodyAttached
             THEN pc' \in {"reading", "drained"}
             ELSE pc' = "panicked" /\ reader' = None
    /\ (resp = None /\ pc # "idle") => resp' = None

\* C17: a Response is headers-only until set_stream attaches the stream and
\* stays body-attached until a body access (into_reader, into_string,
\* into_json, into_json_deserialize) consumes it; a body access needs a
\* Response and leaves none, so there is at most one; on a Response without
\* a stream the access fails (the expect panics) and yields no reader.
C17_BodyIsTakenOnce == [][LifecycleStep]_vars

C17_Witness ==
    /\ pc = "reading"
    /\ resp = None
    /\ result.op = "into_reader"
    /\ result.self.stream.some
    /\ result.self.unit.some
    /\ reader.some

(***************************************************************************)
(* Properties of the status classes                                        *)
(***************************************************************************)
Classes ==
    {c \in {"ok", "redirect", "client_error", "server_error"} : result[c]}

\* C18: for every status code at most one of ok, redirect, client_error
\* and server_error is true and none below 200 or above 599; ok is true
\* exactly for 200..299, redirect for 300..399, client_error for 400..499,
\* server_error for 500..599, and error exactly when client_error or
\* server_error is.
C18_StatusClassesPartition ==
    result.op = "status_class" =>
        /\ result.status = call.status
        /\ Cardinality(Classes) <= 1
        /\ (call.status < 200 \/ call.status > 599) => Classes = {}
        /\ result.ok <=> call.status \in 200..299
        /\ result.redirect <=> call.status \in 300..399
        /\ result.client_error <=> call.status \in 400..499
        /\ result.server_error <=> call.status \in 500..599
        /\ result.error <=> (result.client_error \/ result.server_error)

C18_Witness ==
    /\ result.op = "status_class"
    /\ call.status = 599
    /\ Classes = {"server_error"}
    /\ result.error

(***************************************************************************)
(* The budget of the bounded reader                                        *)
(***************************************************************************)
Bounded == pc \in {"reading", "drained"} /\ reader.some /\ reader.v.kind = "LimitedRead"

\* C19: a bounded reader of declared length L has never delivered more
\* than L bytes; a read that succeeds returns at most
\* min(requested, L - delivered) bytes and adds exactly that number to the
\* count of delivered bytes; a read that fails leaves the count as it was.
C19_BudgetIsNeverExceeded ==
    /\ Bounded =>
          /\ reader.v.position <= reader.v.limit
          /\ reader.v.position = Len(delivered)
          /\ reader.v.stream.pos = reader.v.origin + reader.v.position
    /\ AfterLimitedRead =>
          IF result.res.ok
          THEN /\ result.res.v <= Min(result.requested,
                                      result.before.limit - result.before.position)
               /\ reader.v.position = result.before.position + result.res.v
          ELSE reader.v.position = result.before.position

C19_Witness ==
    /\ AfterLimitedRead
    /\ result.before.position > 0
    /\ result.before.position < result.before.limit
    /\ result.requested > result.before.limit - result.before.position
    /\ remaining(result.before.stream) > result.before.limit - result.before.position
    /\ result.res = Ok(result.before.limit - result.before.position)
    /\ reader.v.position = reader.v.limit

(***************************************************************************)
(* The status line of a Response.  call.fields are the tokens the status   *)
(* line was written from: the version, the status token and, if there is   *)
(* one, the text after it.                                                 *)
(***************************************************************************)
IsDecimal(token) == \A i \in 0..(Len(token) - 1) : is_digit(CharAt(token, i))

TextAfterStatus == IF Len(call.fields) >= 3 THEN call.fields[3] ELSE ""

\* C20: the status_line of every Response is a version token followed by a
\* status token of two or more decimal digits whose value is status(); the
\* recorded offsets lie within the status line, http_version() is the
\* version token and status_text() the trimmed text after the status token,
\* empty when there is none.
C20_StatusLineShape ==
    resp.some =>
        /\ resp.v.status_line = StatusLine(call)
        /\ Len(call.fields) >= 2
        /\ Len(call.fields[2]) >= 2
        /\ IsDecimal(call.fields[2])
        /\ parse_u16(call.fields[2]) = Some(status(resp.v))
        /\ resp.v.index.http_version <= resp.v.index.response_code
        /\ resp.v.index.response_code + 1 <= Len(resp.v.status_line)
        /\ http_version(resp.v) = call.fields[1]
        /\ status_text(resp.v) = trim(TextAfterStatus)

(***************************************************************************)
(* What a parse takes from its source                                      *)
(***************************************************************************)
FromText == call.op \in {"from_str", "do_from_read", "new"}

\* C21: a parse that succeeds has taken from its source the bytes up to and
\* including the CRLF of the first empty line and no byte more; the reader
\* of the body starts at the first byte after that line, and a body read
\* to the close of the source is the text after the empty line.
C21_ParseStopsAfterEmptyLine ==
    /\ (Parsed /\ result.res.ok) => result.consumed = HeadLen(call)
    /\ (FromText /\ resp.some /\ resp.v.stream.some) => resp.v.stream.v.pos = HeadLen(call)
    /\ (FromText /\ Selected) =>
          /\ reader.v.origin = HeadLen(call)
          /\ reader.v.stream.pos = HeadLen(call)
    /\ (FromText /\ Drained /\ reader.v.kind = "DeadlineStream") =>
          /\ delivered = SliceFrom(reader.v.stream.data, HeadLen(call))
          /\ call.op # "new" => delivered = call.body
    /\ (FromText /\ result.op = "into_string" /\ pc = "drained"
            /\ into_reader(result.self).v.kind = "DeadlineStream" /\ result.res.ok) =>
          result.res.v = SliceFrom(result.self.stream.v.data, HeadLen(call))

C21_Witness ==
    /\ call.op = "from_str"
    /\ Len(call.headers) = 5
    /\ Drained
    /\ reader.v.kind = "DeadlineStream"
    /\ reader.v.origin = HeadLen(call)
    /\ delivered = "Set-Cookie: c\r\n\r\n"

(***************************************************************************)
(* The premature-close error of the bounded reader                         *)
(***************************************************************************)
\* C22: the bounded reader returns InvalidData only when its source is at
\* its end; a read of size zero while budget remains and the source still
\* holds bytes returns zero bytes without error and changes nothing, so
\* that later reads deliver the remaining bytes.
C22_InvalidDataOnlyAtEnd ==
    AfterLimitedRead =>
        /\ result.res = Err("InvalidData") => remaining(result.before.stream) = 0
        /\ (/\ result.requested = 0
            /\ result.before.position < result.before.limit
            /\ remaining(result.before.stream) > 0
            /\ result.inner.ok)
               => (result.res = Ok(0) /\ reader.v = result.before)

(***************************************************************************)
(* Shutdown of the test server                                             *)
(***************************************************************************)
HeldByListener(c) == listener_pc = "check" /\ accepted_stream = Some(c)

ListenerLeaves == (drop_pc = "dropped") ~> (listener_pc = "exited")

NoHandlerAfterStop == \A a \in accepted : a.done => a.stream \notin handled

\* the accepted connections the listener has let go without a handler
Unhandled == {a \in accepted : a.stream \notin handled /\ ~HeldByListener(a.stream)}

\* a connection accepted with the flag false has a handler, or the listener
\* still holds it, or the listener found the flag set when it looked and
\* left the loop: this happens to one connection at most
HandledUnlessStopped ==
    /\ Cardinality(Unhandled) <= 1
    /\ Unhandled # {} => (done /\ listener_pc = "exited")

\* a handler exists only for accepted connections, one the listener found
\* the flag false for
HandledWereAccepted ==
    \A c \in handled : [stream |-> c, done |-> FALSE] \in accepted

\* C23: under every interleaving, once Drop has set the flag and connected,
\* the listener thread eventually leaves its loop; no handler is spawned for
\* a connection accepted after the flag was set; a connection accepted
\* while the flag was false is handed to a handler unless Drop sets the
\* flag between its accept and the load of the flag, in which case the
\* listener leaves the loop and the connection gets no handler.
C23_ShutdownStopsListener ==
    /\ [](NoHandlerAfterStop /\ HandledUnlessStopped /\ HandledWereAccepted)
    /\ ListenerLeaves

C23_Witness ==
    /\ drop_pc = "dropped"
    /\ listener_pc = "exited"
    /\ handled # {}
    /\ \E a \in accepted : ~a.done /\ a.stream \notin handled
    /\ [stream |-> SelfConnect, done |-> TRUE] \notin accepted

\* C23 as stated: every connection accepted while the flag was false is
\* handed to a handler.
C23_EveryAcceptedIsHandled ==
    /\ [](NoHandlerAfterStop
            /\ \A a \in accepted : ~a.done => (a.stream \in handled \/ HeldByListener(a.stream)))
    /\ ListenerLeaves

====
